---- MODULE Spec2Model ----
(***************************************************************************)
(* pm2-notify (src/src/app.ts): PM2 log events are queued per event type,  *)
(* aggregated per process name, and mailed either after a debounce timer   *)
(* (log:err) or at once (payload containing BROADCST:EMAIL).               *)
(*                                                                         *)
(* A payload is a sequence of UTF-16 code units, each written as a         *)
(* one-character string; "H" and "L" stand for the high surrogate U+D834   *)
(* and the low surrogate U+DF06.  An encoded message is a string.          *)
(***************************************************************************)
EXTENDS Integers, Sequences, FiniteSets, TLC

\* ------------------------------------------------------------------ bounds
\* events delivered by the bus in one run of the main specification
MaxEvents == 3
\* fragments queued in the initial states of the aggregation specification
MaxFrags == 3

\* ------------------------------------------------------- configuration
\* Object.keys(config.target), in enumeration order
eventTypes == <<"log:err", "log:out">>

Target == {eventTypes[i] : i \in 1..Len(eventTypes)}

\* config.target: the watch-list of each event type
configTarget == [e \in Target |-> IF e = "log:err" THEN {"svc", "2", "1"} ELSE {"svc", "2"}]

\* isWatched looking the name up in the watch-lists of all event types
isWatched_AnyList(event, name) == \E e \in Target : name \in configTarget[e]

\* config.target[event].includes(packet.process.name)
isWatched(event, name) == name \in configTarget[event]

\* the event type whose accepted events are debounced
ErrEvent == "log:err"

\* process names the bus reports; "other" is on no watch-list
ProcessNames == {"svc", "2", "1", "other"}

\* process names of the events delivered in the main specification
BusNames == {"svc", "1", "other"}

\* config.mail.subject
configMailSubject == "pm2"

\* the substring that triggers an immediate send
BroadcastMarker == <<"B", "R", "O", "A", "D", "C", "S", "T", ":", "E", "M", "A", "I", "L">>

\* payloads the bus delivers in the main specification
Payloads == {<<"x">>, <<"&">> \o BroadcastMarker}

\* payloads of the fragments in the aggregation specification
AggPayloads == {<<>>, <<"a">>, <<"&">>, <<"H">>, <<"L">>}

\* ------------------------------------------------------------ helpers
\* Includes matching at every position (as with an empty search string)
Includes_Any(data, sub) == Len(data) >= 0

\* String.prototype.includes
Includes(data, sub) ==
  \E i \in 0..(Len(data) - Len(sub)) : SubSeq(data, i + 1, i + Len(sub)) = sub

\* he.encode with default options: ["&'<>`] and non-ASCII symbols become
\* hexadecimal escapes, a surrogate pair becomes one escape of its code point
RECURSIVE heEncode(_)
heEncode(s) ==
  IF s = <<>> THEN ""
  ELSE IF Len(s) >= 2 /\ s[1] = "H" /\ s[2] = "L"
         THEN "&#x1D306;" \o heEncode(SubSeq(s, 3, Len(s)))
  ELSE LET c == s[1]
           e == CASE c = "&" -> "&#x26;"
                  [] c = "<" -> "&#x3C;"
                  [] c = "H" -> "&#xD834;"
                  [] c = "L" -> "&#xDF06;"
                  [] OTHER   -> c
       IN e \o heEncode(Tail(s))

\* the array index a property key denotes, or -1 when it is not one
ArrayIndex(name) ==
  CASE name = "1" -> 1
    [] name = "2" -> 2
    [] OTHER      -> -1

\* content[data.name] = content[data.name] || ''; content[data.name] += data.message
\* content is {keys: the own string keys in insertion order, val: key -> value}
RECURSIVE contentOf(_, _)
contentOf(qdata, content) ==
  IF qdata = <<>> THEN content
  ELSE LET data == Head(qdata)
           has  == \E i \in 1..Len(content.keys) : content.keys[i] = data.name
           old  == IF has /\ content.val[data.name] # <<>> THEN content.val[data.name] ELSE <<>>
           new  == [keys |-> IF has THEN content.keys ELSE Append(content.keys, data.name),
                    val  |-> [n \in (DOMAIN content.val) \cup {data.name} |->
                                IF n = data.name THEN old \o data.message ELSE content.val[n]]]
       IN contentOf(Tail(qdata), new)

\* integer-like keys of an object in ascending order
RECURSIVE SortedIndexKeys(_)
SortedIndexKeys(ks) ==
  IF ks = {} THEN <<>>
  ELSE LET k == CHOOSE x \in ks : \A y \in ks : ArrayIndex(x) <= ArrayIndex(y)
       IN <<k>> \o SortedIndexKeys(ks \ {k})

\* Object.entries(content): integer-like keys ascending, then the other keys
\* in insertion order
objectEntries(content) ==
  LET idx == {content.keys[i] : i \in 1..Len(content.keys)} \cap {n \in ProcessNames : ArrayIndex(n) >= 0}
      str == SelectSeq(content.keys, LAMBDA k : ArrayIndex(k) < 0)
      ks  == SortedIndexKeys(idx) \o str
  IN [i \in 1..Len(ks) |-> <<ks[i], content.val[ks[i]]>>]

\* the encodings of the messages of name's fragments, concatenated
RECURSIVE encodeEach(_, _)
encodeEach(qdata, name) ==
  IF qdata = <<>> THEN ""
  ELSE (IF Head(qdata).name = name THEN heEncode(Head(qdata).message) ELSE "")
         \o encodeEach(Tail(qdata), name)

\* logsOfQueue escaping every fragment before it is concatenated
logsOfQueue_EscapeEach(event, qdata) ==
  LET es == objectEntries(contentOf(qdata, [keys |-> <<>>, val |-> <<>>]))
  IN [i \in 1..Len(es) |-> [name |-> es[i][1] \o " " \o event, message |-> encodeEach(qdata, es[i][1])]]

\* the log entries of one event type's drained fragments
logsOfQueue(event, qdata) ==
  LET es == objectEntries(contentOf(qdata, [keys |-> <<>>, val |-> <<>>]))
  IN [i \in 1..Len(es) |-> [name |-> es[i][1] \o " " \o event, message |-> heEncode(es[i][2])]]

\* spliceAll copying the elements instead of removing them (slice for splice)
spliceAll_Slice(qdata) == [removed |-> qdata, rest |-> qdata]

\* qdata.splice(0, qdata.length): the elements removed and the array left
spliceAll(qdata) == [removed |-> qdata, rest |-> <<>>]

\* aggregateFrom leaving the loop after the first event type
aggregateFrom_FirstOnly(i, qs) ==
  IF i > 1 THEN [logs |-> <<>>, frags |-> <<>>, queues |-> qs]
  ELSE [logs   |-> logsOfQueue(eventTypes[i], qs[eventTypes[i]]),
        frags  |-> qs[eventTypes[i]],
        queues |-> [qs EXCEPT ![eventTypes[i]] = <<>>]]

\* aggregateLogs over the queues qs, from the i-th event type on, in
\* Object.entries(queues) order: the logs, the fragments removed, the queues left
RECURSIVE aggregateFrom(_, _)
aggregateFrom(i, qs) ==
  IF i > Len(eventTypes) THEN [logs |-> <<>>, frags |-> <<>>, queues |-> qs]
  ELSE LET event == eventTypes[i]
           sp    == spliceAll(qs[event])
           rec   == aggregateFrom(i + 1, [qs EXCEPT ![event] = sp.rest])
       IN [logs   |-> logsOfQueue(event, sp.removed) \o rec.logs,
           frags  |-> sp.removed \o rec.frags,
           queues |-> rec.queues]

aggregateLogs(qs) == aggregateFrom(1, qs)

\* ------------------------------------------------------------- state
VARIABLES
  queues,       \* queues[event]: the QData of that event type, in arrival order
  mailTimeout,  \* the timer handle held by the debounce slot, 0 for null
  timers,       \* handles of the timers armed by setTimeout and not yet fired
  armed,        \* number of setTimeout calls so far
  dispatches,   \* every sendMail call so far, in call order, with its progress
  nEvents,      \* number of events the bus has delivered to handleEvent
  last,         \* the step taken last
  pc,           \* where the startup function is, "listening" once it has subscribed
  exitCode      \* the status the process ended with, -1 while it runs

vars == <<queues, mailTimeout, timers, armed, dispatches, nEvents, last, pc, exitCode>>

\* the sendMail calls awaiting transporter.sendMail
inflight == {i \in 1..Len(dispatches) : dispatches[i].state = "sending"}

NoStep == [op |-> "none", event |-> "", name |-> "", data |-> <<>>, accepted |-> FALSE, n |-> 0]

\* the module is loaded: empty queues, no timer, nothing started
Loaded ==
  /\ queues = [e \in Target |-> <<>>]
  /\ mailTimeout = 0
  /\ timers = {}
  /\ armed = 0
  /\ dispatches = <<>>
  /\ nEvents = 0
  /\ last = NoStep
  /\ exitCode = -1

\* the startup function has subscribed to every event type
Init == Loaded /\ pc = "listening"

\* sendMailStart with the slot reset on the success path only (no finally)
sendMailStart_NoFinally(qs, eventName, renderOk, kind, timer, at) ==
  LET agg == aggregateLogs(qs)
      d == [kind |-> kind, timer |-> timer, at |-> at, frags |-> agg.frags,
            subject |-> eventName \o "-" \o configMailSubject, logs |-> agg.logs,
            state |-> IF renderOk THEN "sending" ELSE "render_error"]
  IN /\ queues' = agg.queues
     /\ dispatches' = Append(dispatches, d)
     /\ mailTimeout' = mailTimeout

\* sendMailStart blocking its caller until the send has settled
sendMailStart_Blocking(qs, eventName, renderOk, kind, timer, at) ==
  LET agg == aggregateLogs(qs)
      d == [kind |-> kind, timer |-> timer, at |-> at, frags |-> agg.frags,
            subject |-> eventName \o "-" \o configMailSubject, logs |-> agg.logs,
            state |-> IF renderOk THEN "sent" ELSE "render_error"]
  IN /\ queues' = agg.queues
     /\ dispatches' = Append(dispatches, d)
     /\ mailTimeout' = 0

\* sendMailStart returning early, without render or send, when the drain
\* produced no entry
sendMailStart_SkipEmpty(qs, eventName, renderOk, kind, timer, at) ==
  LET agg == aggregateLogs(qs)
      d == [kind |-> kind, timer |-> timer, at |-> at, frags |-> agg.frags,
            subject |-> eventName \o "-" \o configMailSubject, logs |-> agg.logs,
            state |-> IF agg.logs = <<>> THEN "skipped"
                      ELSE IF renderOk THEN "sending" ELSE "render_error"]
  IN /\ queues' = agg.queues
     /\ dispatches' = Append(dispatches, d)
     /\ mailTimeout' = IF renderOk /\ agg.logs # <<>> THEN mailTimeout ELSE 0

\* sendMail up to its first await: drain and aggregate qs, render, and either
\* issue transporter.sendMail (renderOk) or throw, catch and run the finally
\* block.  kind and timer say what called it, at is the number of events
\* delivered so far.
sendMailStart(qs, eventName, renderOk, kind, timer, at) ==
  LET agg == aggregateLogs(qs)
      d == [kind |-> kind, timer |-> timer, at |-> at, frags |-> agg.frags,
            subject |-> eventName \o "-" \o configMailSubject, logs |-> agg.logs,
            state |-> IF renderOk THEN "sending" ELSE "render_error"]
  IN /\ queues' = agg.queues
     /\ dispatches' = Append(dispatches, d)
     /\ mailTimeout' = IF renderOk THEN mailTimeout ELSE 0

\* handleEvent(event, packet) with packet.process.name = name, packet.data = data;
\* the event is the (nEvents + 1)-th delivered, and a timer it arms gets that
\* number as its handle
handleEvent(event, name, data, renderOk) ==
  /\ pc = "listening"
  /\ UNCHANGED <<pc, exitCode>>
  /\ nEvents < MaxEvents
  /\ nEvents' = nEvents + 1
  /\ IF ~isWatched(event, name)
       THEN /\ renderOk
            /\ last' = [op |-> "event", event |-> event, name |-> name, data |-> data,
                        accepted |-> FALSE, n |-> nEvents + 1]
            /\ UNCHANGED <<queues, mailTimeout, timers, armed, dispatches>>
       ELSE LET q == [event |-> event, name |-> name, message |-> data, id |-> nEvents + 1]
                pushed == [queues EXCEPT ![event] = Append(@, q)]
            IN /\ last' = [op |-> "event", event |-> event, name |-> name, data |-> data,
                           accepted |-> TRUE, n |-> nEvents + 1]
               /\ IF event = ErrEvent
                    THEN /\ renderOk
                         /\ queues' = pushed
                         /\ IF mailTimeout = 0
                              THEN /\ mailTimeout' = nEvents + 1
                                   /\ timers' = timers \cup {nEvents + 1}
                                   /\ armed' = armed + 1
                              ELSE UNCHANGED <<mailTimeout, timers, armed>>
                         /\ UNCHANGED dispatches
                    ELSE IF Includes(data, BroadcastMarker)
                      THEN /\ sendMailStart(pushed, event, renderOk, "broadcast", 0, nEvents + 1)
                           /\ UNCHANGED <<timers, armed>>
                      ELSE /\ renderOk
                           /\ queues' = pushed
                           /\ UNCHANGED <<mailTimeout, timers, armed, dispatches>>

\* timerFire of a timer that stays armed after its callback (setInterval)
timerFire_Interval(t, renderOk) ==
  /\ t \in timers
  /\ timers' = timers
  /\ sendMailStart(queues, ErrEvent, renderOk, "timer", t, nEvents)
  /\ last' = [NoStep EXCEPT !.op = "fire", !.n = t]
  /\ UNCHANGED <<armed, nEvents, pc, exitCode>>

\* the timer t armed at line 87 fires: () => sendMail('log:err')
timerFire(t, renderOk) ==
  /\ t \in timers
  /\ timers' = timers \ {t}
  /\ sendMailStart(queues, ErrEvent, renderOk, "timer", t, nEvents)
  /\ last' = [NoStep EXCEPT !.op = "fire", !.n = t]
  /\ UNCHANGED <<armed, nEvents, pc, exitCode>>

\* sendMailSettle putting the fragments of a failed send back at the head of
\* their queues
sendMailSettle_Requeue(i, ok) ==
  /\ i \in inflight
  /\ dispatches' = [dispatches EXCEPT ![i].state = IF ok THEN "sent" ELSE "send_error"]
  /\ mailTimeout' = 0
  /\ last' = [NoStep EXCEPT !.op = "settle", !.n = i]
  /\ queues' = IF ok THEN queues
               ELSE [e \in Target |->
                       SelectSeq(dispatches[i].frags, LAMBDA f : f.event = e) \o queues[e]]
  /\ UNCHANGED <<timers, armed, nEvents, pc, exitCode>>

\* sendMailSettle leaving the slot as it is (no finally block)
sendMailSettle_KeepSlot(i, ok) ==
  /\ i \in inflight
  /\ dispatches' = [dispatches EXCEPT ![i].state = IF ok THEN "sent" ELSE "send_error"]
  /\ last' = [NoStep EXCEPT !.op = "settle", !.n = i]
  /\ UNCHANGED <<queues, mailTimeout, timers, armed, nEvents, pc, exitCode>>

\* transporter.sendMail of dispatch i settles (resolves if ok, rejects if not)
\* and sendMail resumes: log or catch, then the finally block
sendMailSettle(i, ok) ==
  /\ i \in inflight
  /\ dispatches' = [dispatches EXCEPT ![i].state = IF ok THEN "sent" ELSE "send_error"]
  /\ mailTimeout' = 0
  /\ last' = [NoStep EXCEPT !.op = "settle", !.n = i]
  /\ UNCHANGED <<queues, timers, armed, nEvents, pc, exitCode>>

Next ==
  \/ \E event \in Target, name \in BusNames, data \in Payloads, renderOk \in BOOLEAN :
       handleEvent(event, name, data, renderOk)
  \/ \E t \in timers, renderOk \in BOOLEAN : timerFire(t, renderOk)
  \/ \E i \in inflight, ok \in BOOLEAN : sendMailSettle(i, ok)

Spec == Init /\ [][Next]_vars

\* ------------------------------------------------- startup specification
\* the variables the startup steps leave alone
appState == <<queues, mailTimeout, timers, armed, dispatches, nEvents>>

\* await verifySmtpConnection(): transporter.verify() resolves, or it rejects
\* and the catch block calls process.exit(1)
verifySmtpConnection(ok) ==
  /\ pc = "verify"
  /\ pc' = IF ok THEN "connect" ELSE "exited"
  /\ exitCode' = IF ok THEN exitCode ELSE 1
  /\ last' = [NoStep EXCEPT !.op = "verify"]
  /\ UNCHANGED appState

\* await pm2.connect: it resolves, or it rejects and the rejection of the
\* startup function reaches the catch handler, which logs 'Fatal error'
pm2Connect(ok) ==
  /\ pc = "connect"
  /\ pc' = IF ok THEN "launchBus" ELSE "caught"
  /\ last' = [NoStep EXCEPT !.op = "connect"]
  /\ UNCHANGED <<appState, exitCode>>

\* await pm2.launchBus: it resolves and the loop registers the handler of
\* every event type, or it rejects and the catch handler logs 'Fatal error'
pm2LaunchBus(ok) ==
  /\ pc = "launchBus"
  /\ pc' = IF ok THEN "listening" ELSE "caught"
  /\ last' = [NoStep EXCEPT !.op = "launchBus"]
  /\ UNCHANGED <<appState, exitCode>>

\* after the catch handler nothing calls process.exit: the process stays up
\* or, once the event loop has nothing left to wait for, ends with status 0
eventLoopEnds ==
  /\ pc = "caught"
  /\ pc' = "exited"
  /\ exitCode' = 0
  /\ last' = [NoStep EXCEPT !.op = "end"]
  /\ UNCHANGED appState

StartInit == Loaded /\ pc = "verify"

StartNext ==
  \/ \E ok \in BOOLEAN : verifySmtpConnection(ok)
  \/ \E ok \in BOOLEAN : pm2Connect(ok)
  \/ \E ok \in BOOLEAN : pm2LaunchBus(ok)
  \/ eventLoopEnds
  \/ Next

SpecStart == StartInit /\ [][StartNext]_vars

\* ---------------------------------------------- aggregation specification
\* the QData sequences of n fragments of one event type, numbered from id0 + 1
QueuesOf(event, n, id0) ==
  {[k \in 1..n |-> [event |-> event, name |-> f[k][1], message |-> f[k][2], id |-> id0 + k]] :
     f \in [1..n -> configTarget[event] \X AggPayloads]}

\* up to MaxFrags accepted fragments are queued (the log:err ones arrived
\* first) and the timer armed by the first of them is waiting
AggInit ==
  /\ \E ne \in 1..MaxFrags : \E no \in 0..(MaxFrags - ne) :
       \E qe \in QueuesOf(eventTypes[1], ne, 0) : \E qo \in QueuesOf(eventTypes[2], no, ne) :
         /\ queues = [e \in Target |-> IF e = eventTypes[1] THEN qe ELSE qo]
         /\ nEvents = ne + no
  /\ mailTimeout = 1
  /\ timers = {1}
  /\ armed = 1
  /\ dispatches = <<>>
  /\ last = NoStep
  /\ pc = "listening"
  /\ exitCode = -1

AggNext == \E t \in timers, renderOk \in BOOLEAN : timerFire(t, renderOk)

SpecAgg == AggInit /\ [][AggNext]_vars

\* ------------------------------------------------------------ claims
\* the step just taken is handleEvent accepting an event
AcceptedEventStep == last'.op = "event" /\ nEvents' = nEvents + 1 /\ last'.accepted

\* the step just taken is handleEvent rejecting an event
RejectedEventStep == last'.op = "event" /\ nEvents' = nEvents + 1 /\ ~last'.accepted

\* the step just taken called sendMail
DispatchStep == Len(dispatches') = Len(dispatches) + 1

\* the dispatch the step just taken started
NewDispatch == dispatches'[Len(dispatches')]

\* C1: at most one debounce timer is armed and not yet fired, in every
\* reachable state.
C1_AtMostOneTimerArmed == Cardinality(timers) <= 1

\* the pending window of timer t: t is the only timer waiting, it was armed
\* with no earlier timer waiting, and no broadcast dispatch has started since
PendingWindow(t) ==
  /\ timers = {t}
  /\ \A i \in 1..Len(dispatches) :
       /\ dispatches[i].kind = "broadcast" => dispatches[i].at < t
       /\ (dispatches[i].kind = "timer" /\ dispatches[i].timer < t) => dispatches[i].at < t

\* C2: accepted error events that arrive in the pending window opened from
\* Idle, with no broadcast dispatch in between, neither re-arm nor duplicate
\* the timer, and the one dispatch at its fire takes every fragment of the
\* window in arrival order.
C2_OneTimerOneDispatch ==
  [][\A t \in timers : PendingWindow(t) =>
       /\ (AcceptedEventStep /\ last'.event = ErrEvent) =>
            (timers' = timers /\ armed' = armed /\ mailTimeout' = mailTimeout)
       /\ (last'.op = "fire" /\ t \notin timers') =>
            /\ DispatchStep
            /\ SelectSeq(NewDispatch.frags, LAMBDA f : f.event = ErrEvent) = queues[ErrEvent]
            /\ \E k \in 1..Len(queues[ErrEvent]) : queues[ErrEvent][k].id = t
            /\ \A i \in 1..Len(dispatches) : \A k \in 1..Len(dispatches[i].frags) :
                 dispatches[i].frags[k].event = ErrEvent => dispatches[i].frags[k].id < t]_vars

\* C3: a queued error fragment always has an armed timer that will dispatch
\* it without a further event (dispatches start only at a timer fire or at a
\* broadcast event).
C3_QueuedErrorCovered == queues[ErrEvent] # <<>> => timers # {}

\* C6: at most one send is in flight at any time.
C6_AtMostOneSendInFlight == Cardinality(inflight) <= 1

\* the ids of the fragments queued in qs
QueuedIds(qs) == UNION {{qs[e][k].id : k \in 1..Len(qs[e])} : e \in Target}

\* the ids of a sequence of fragments
IdsOf(frags) == {frags[k].id : k \in 1..Len(frags)}

\* every fragment of dispatch d has an entry for its process and event type
InAggregate(d) ==
  \A k \in 1..Len(d.frags) : \E j \in 1..Len(d.logs) :
    d.logs[j].name = d.frags[k].name \o " " \o d.frags[k].event

\* the last step was handleEvent taking a broadcast-marker event
BroadcastStep ==
  /\ AcceptedEventStep
  /\ last'.event # ErrEvent
  /\ Includes(last'.data, BroadcastMarker)

\* C4: handling an accepted non-error event with the broadcast marker starts
\* a dispatch in the same turn that empties the queue of every event type and
\* whose aggregate holds the triggering fragment and every queued fragment.
C4_BroadcastFlushesAll ==
  [][BroadcastStep =>
       /\ DispatchStep
       /\ NewDispatch.kind = "broadcast"
       /\ \A e \in Target : queues'[e] = <<>>
       /\ IdsOf(NewDispatch.frags) = QueuedIds(queues) \cup {last'.n}
       /\ Len(NewDispatch.frags) = Cardinality(QueuedIds(queues)) + 1
       /\ InAggregate(NewDispatch)]_vars

\* a broadcast event has just flushed an error fragment that the pending
\* timer was to cover, together with its own fragment
C4_Witness ==
  /\ last.op = "event" /\ last.accepted /\ last.event # ErrEvent
  /\ Includes(last.data, BroadcastMarker)
  /\ timers # {}
  /\ Len(dispatches) >= 1
  /\ LET d == dispatches[Len(dispatches)]
     IN /\ d.at = last.n
        /\ \E k \in 1..Len(d.frags) : d.frags[k].event = ErrEvent
        /\ \E k \in 1..Len(d.frags) : d.frags[k].id = last.n

\* how many times fragment id is queued in qs
QueuedCount(id, qs) ==
  Cardinality({p \in UNION {{<<e, k>> : k \in 1..Len(qs[e])} : e \in Target} :
                 qs[p[1]][p[2]].id = id})

\* how many times fragment id was drained by the dispatches ds
DrainedCount(id, ds) ==
  Cardinality({p \in UNION {{<<i, k>> : k \in 1..Len(ds[i].frags)} : i \in 1..Len(ds)} :
                 ds[p[1]].frags[p[2]].id = id})

\* C5: every accepted fragment is either still in its queue or in the
\* aggregate of exactly one dispatch: a step puts an accepted fragment in one
\* place, never copies a fragment and never drops one.
C5_QueuedOrDrainedOnce ==
  [][/\ \A id \in 1..nEvents' : QueuedCount(id, queues') + DrainedCount(id, dispatches') <= 1
     /\ \A id \in 1..nEvents :
          QueuedCount(id, queues) + DrainedCount(id, dispatches) = 1
            => QueuedCount(id, queues') + DrainedCount(id, dispatches') = 1
     /\ AcceptedEventStep =>
          QueuedCount(last'.n, queues') + DrainedCount(last'.n, dispatches') = 1
     /\ DispatchStep => InAggregate(NewDispatch)]_vars

\* two overlapping dispatches, both awaiting their send, have each drained
\* fragments, and a later fragment is still queued
C5_Witness ==
  /\ \E i, j \in inflight : i < j /\ dispatches[i].frags # <<>> /\ dispatches[j].frags # <<>>
  /\ \E e \in Target : queues[e] # <<>>

\* C7: a dispatch whose rendering fails calls no send and leaves the slot
\* null, and an accepted error event that follows it arms a fresh timer.
C7_RenderErrorReleasesSlot ==
  [][/\ (DispatchStep /\ NewDispatch.state # "sending") =>
          (NewDispatch.state = "render_error" /\ inflight' = inflight /\ mailTimeout' = 0)
     /\ (/\ AcceptedEventStep /\ last'.event = ErrEvent
         /\ Len(dispatches) >= 1
         /\ dispatches[Len(dispatches)].state = "render_error"
         /\ last.op = IF dispatches[Len(dispatches)].kind = "timer" THEN "fire" ELSE "event"
         /\ last.n = IF dispatches[Len(dispatches)].kind = "timer"
                       THEN dispatches[Len(dispatches)].timer ELSE dispatches[Len(dispatches)].at)
          => (mailTimeout' = last'.n /\ last'.n \in timers' /\ armed' = armed + 1)]_vars

\* the timer's dispatch failed to render while a broadcast send was in
\* flight, and the next error event has armed a fresh timer
C7_Witness ==
  /\ last.op = "event" /\ last.accepted /\ last.event = ErrEvent
  /\ mailTimeout = last.n /\ last.n \in timers
  /\ Len(dispatches) >= 1
  /\ dispatches[Len(dispatches)].state = "render_error"
  /\ dispatches[Len(dispatches)].kind = "timer"
  /\ dispatches[Len(dispatches)].frags # <<>>

\* C8: an event whose process name is not on the watch-list of its event
\* type changes no queue, not the slot, not the armed timers, and starts no
\* dispatch.
C8_RejectedChangesNothing ==
  [][(last'.op = "event" /\ nEvents' = nEvents + 1
        /\ last'.name \notin configTarget[last'.event])
       => UNCHANGED <<queues, mailTimeout, timers, armed, dispatches>>]_vars

\* an event for a process watched under another event type only has just
\* been rejected while fragments are queued and a timer is armed
C8_Witness ==
  /\ last.op = "event" /\ ~last.accepted
  /\ last.name = "1" /\ last.event = "log:out"
  /\ timers # {} /\ mailTimeout # 0
  /\ queues[ErrEvent] # <<>>

\* C9: whatever sends are in flight, handleEvent can take an event of every
\* event type and process name, an accepted event is appended to its queue in
\* that step (and stays there unless the same step drains it into the
\* dispatch it starts), and the step settles no send, its own included.
C9_IntakeNeverBlocks ==
  /\ [](nEvents < MaxEvents =>
          \A event \in Target, name \in BusNames :
            ENABLED (\E data \in Payloads : handleEvent(event, name, data, TRUE)))
  /\ [][AcceptedEventStep =>
          /\ \/ /\ Len(queues'[last'.event]) = Len(queues[last'.event]) + 1
                /\ queues'[last'.event][Len(queues'[last'.event])].id = last'.n
                /\ ~DispatchStep
             \/ /\ DispatchStep
                /\ \E k \in 1..Len(NewDispatch.frags) : NewDispatch.frags[k].id = last'.n
          /\ \A i \in inflight : i \in inflight'
          /\ DispatchStep => NewDispatch.state \in {"sending", "render_error"}]_vars

\* an accepted event has been queued while two sends are in flight
C9_Witness ==
  /\ last.op = "event" /\ last.accepted
  /\ Cardinality(inflight) >= 2
  /\ \E k \in 1..Len(queues[last.event]) : queues[last.event][k].id = last.n

\* the payloads of the fragments of process name in frags, concatenated
RECURSIVE PayloadsOf(_, _, _)
PayloadsOf(frags, event, name) ==
  IF frags = <<>> THEN <<>>
  ELSE (IF Head(frags).event = event /\ Head(frags).name = name THEN Head(frags).message ELSE <<>>)
         \o PayloadsOf(Tail(frags), event, name)

C11_StartupFailureExitsNonZero ==
  pc \in {"exited", "caught"} => (exitCode >= 1 /\ nEvents = 0)

\* the step taken last drained the queues
PrevStepDrained ==
  \/ last.op = "fire"
  \/ /\ last.op = "event"
     /\ Len(dispatches) >= 1
     /\ dispatches[Len(dispatches)].kind = "broadcast"
     /\ dispatches[Len(dispatches)].at = last.n

\* C12: a drain leaves every queue empty, and a drain that follows a drain
\* with no append between them returns an empty sequence.
C12_DrainIdempotent ==
  [][DispatchStep =>
       /\ \A e \in Target : queues'[e] = <<>>
       /\ (PrevStepDrained /\ last'.op = "fire") =>
            (NewDispatch.logs = <<>> /\ NewDispatch.frags = <<>>)]_vars

\* a timer's drain has come right after a drain that took fragments, and
\* returned nothing
C12_Witness ==
  /\ last.op = "fire"
  /\ Len(dispatches) >= 2
  /\ dispatches[Len(dispatches)].logs = <<>>
  /\ dispatches[Len(dispatches) - 1].frags # <<>>
  /\ dispatches[Len(dispatches) - 1].at = dispatches[Len(dispatches)].at
  /\ \A e \in Target : queues[e] = <<>>

\* the step taken ends a broadcast-triggered dispatch: its render fails in
\* the handler, or its send settles
BroadcastDispatchEnds ==
  \/ /\ DispatchStep
     /\ NewDispatch.kind = "broadcast"
     /\ NewDispatch.state = "render_error"
  \/ \E i \in inflight :
       /\ dispatches[i].kind = "broadcast"
       /\ i \notin inflight'
       /\ last'.op = "settle" /\ last'.n = i

\* C13: no step of a broadcast-triggered dispatch, its start and its end
\* (success or failure) included, changes the debounce slot.
C13_BroadcastLeavesSlot ==
  [][((DispatchStep /\ NewDispatch.kind = "broadcast") \/ BroadcastDispatchEnds)
       => mailTimeout' = mailTimeout]_vars

\* the dispatches started by a timer's callback
TimerDispatches == {i \in 1..Len(dispatches) : dispatches[i].kind = "timer"}

\* C14: an armed timer leaves the armed set only by firing (nothing cancels
\* it), each fire starts exactly one dispatch attempt, so the timer-triggered
\* attempts are as many as the timers fired and no two are of one timer.
C14_TimerFiresOnce ==
  /\ [](Cardinality(TimerDispatches) = armed - Cardinality(timers))
  /\ [](\A i, j \in TimerDispatches :
          /\ dispatches[i].timer \notin timers
          /\ i # j => dispatches[i].timer # dispatches[j].timer)
  /\ [][\A t \in timers : t \notin timers' =>
          /\ last'.op = "fire" /\ last'.n = t
          /\ DispatchStep
          /\ NewDispatch.kind = "timer" /\ NewDispatch.timer = t
          /\ timers' = timers \ {t}]_vars

\* two timers were armed, both have fired, and each started one dispatch
C14_Witness ==
  /\ armed = 2
  /\ timers = {}
  /\ Cardinality(TimerDispatches) = 2

\* the states of a dispatch that has failed
FailedStates == {"render_error", "send_error"}

\* the step taken is the failure of a dispatch: its render fails, or its
\* send is rejected
RenderFailStep == DispatchStep /\ NewDispatch.state = "render_error"

SendFailStep ==
  \E i \in inflight : dispatches'[i].state = "send_error"

\* C15: a failed dispatch is terminal for that attempt only: its fragments
\* are in no queue afterwards, its record never changes again, the failure
\* starts no other dispatch and arms no timer, and the handler in which a
\* render fails completes as for any accepted event.
C15_FailureIsTerminal ==
  /\ [](\A i \in 1..Len(dispatches) :
          dispatches[i].state \in FailedStates =>
            IdsOf(dispatches[i].frags) \cap QueuedIds(queues) = {})
  /\ [][/\ \A i \in 1..Len(dispatches) :
             dispatches[i].state \in FailedStates => dispatches'[i] = dispatches[i]
        /\ SendFailStep =>
             /\ Len(dispatches') = Len(dispatches)
             /\ inflight' \subseteq inflight
             /\ UNCHANGED <<queues, timers, armed, nEvents>>
        /\ RenderFailStep =>
             /\ inflight' = inflight
             /\ armed' = armed
             /\ timers' \subseteq timers
             /\ \A e \in Target : queues'[e] = <<>>
             /\ NewDispatch.kind = "broadcast" =>
                  (AcceptedEventStep /\ last'.n \in IdsOf(NewDispatch.frags))]_vars

\* a dispatch that drained fragments has had its send rejected, and one that
\* drained fragments has failed to render
C15_Witness ==
  /\ \E i \in 1..Len(dispatches) :
       dispatches[i].state = "send_error" /\ dispatches[i].frags # <<>>
  /\ \E i \in 1..Len(dispatches) :
       dispatches[i].state = "render_error" /\ dispatches[i].frags # <<>>
  /\ last.op = "settle"

\* the step taken is handleEvent accepting a non-error event without the
\* broadcast marker
PlainEventStep ==
  /\ AcceptedEventStep
  /\ last'.event # ErrEvent
  /\ ~(\E k \in 1..Len(last'.data) :
         k + Len(BroadcastMarker) - 1 <= Len(last'.data)
         /\ \A j \in 1..Len(BroadcastMarker) : last'.data[k + j - 1] = BroadcastMarker[j])

\* C16: an accepted non-error event without the broadcast marker only appends
\* its fragment to its queue: no timer, no dispatch, slot and other queues
\* unchanged; and a queued fragment leaves its queue only in a step that
\* starts a dispatch.
C16_PlainEventOnlyAppends ==
  [][/\ PlainEventStep =>
          /\ queues' = [queues EXCEPT ![last'.event] =
                          Append(@, [event |-> last'.event, name |-> last'.name,
                                     message |-> last'.data, id |-> last'.n])]
          /\ UNCHANGED <<mailTimeout, timers, armed, dispatches>>
     /\ \A id \in QueuedIds(queues) : id \in QueuedIds(queues') \/ DispatchStep]_vars

\* a plain log:out event has just been queued behind an error fragment whose
\* timer is armed
C16_Witness ==
  /\ last.op = "event" /\ last.accepted /\ last.event = "log:out"
  /\ last.data = <<"x">>
  /\ Len(queues["log:out"]) >= 1
  /\ queues["log:out"][Len(queues["log:out"])].id = last.n
  /\ queues[ErrEvent] # <<>>
  /\ timers # {} /\ mailTimeout # 0

\* the labels of the distinct (process name, event type) pairs of frags, in
\* first-seen order
RECURSIVE FirstSeenLabels(_, _)
FirstSeenLabels(frags, seen) ==
  IF frags = <<>> THEN seen
  ELSE LET label == Head(frags).name \o " " \o Head(frags).event
       IN FirstSeenLabels(Tail(frags),
                          IF \E i \in 1..Len(seen) : seen[i] = label
                            THEN seen ELSE Append(seen, label))

\* the labels an aggregate of frags is to have: event types in enumeration
\* order, and within one the process names in first-seen order
RECURSIVE ExpectedLabels(_, _)
ExpectedLabels(i, frags) ==
  IF i > Len(eventTypes) THEN <<>>
  ELSE FirstSeenLabels(SelectSeq(frags, LAMBDA f : f.event = eventTypes[i]), <<>>)
         \o ExpectedLabels(i + 1, frags)

\* C17: the aggregate of a drain has one entry per (process name, event
\* type) pair with a fragment, ordered by event type in enumeration order and
\* within an event type by the first-seen order of the process names.
C17_AggregateOrder ==
  \A i \in 1..Len(dispatches) :
    [j \in 1..Len(dispatches[i].logs) |-> dispatches[i].logs[j].name]
      = ExpectedLabels(1, dispatches[i].frags)

\* C18: a non-null slot holds the handle of a timer that is armed and has not
\* fired, or of a timer whose dispatch is still awaiting its send.
C18_SlotNeverLeaked ==
  mailTimeout # 0 =>
    \/ mailTimeout \in timers
    \/ \E i \in inflight : dispatches[i].kind = "timer" /\ dispatches[i].timer = mailTimeout

\* the slot holds the handle of a timer that has fired and whose send is in
\* flight, and an error fragment has arrived since
C18_Witness ==
  /\ mailTimeout # 0
  /\ mailTimeout \notin timers
  /\ \E i \in inflight : dispatches[i].timer = mailTimeout
  /\ queues[ErrEvent] # <<>>

\* C19: a broadcast dispatch leaves the armed timers armed, and a dispatch
\* renders and, unless the render fails, sends whatever its drain produced:
\* a timer that fires on empty queues starts a dispatch of zero entries.
C19_EmptyDispatchStillSends ==
  [][/\ BroadcastStep => timers' = timers
     /\ DispatchStep => NewDispatch.state \in {"sending", "render_error"}
     /\ (last'.op = "fire" /\ timers' # timers /\ \A e \in Target : queues[e] = <<>>) =>
          /\ DispatchStep
          /\ NewDispatch.logs = <<>>
          /\ NewDispatch.state = "sending" => Len(dispatches') \in inflight']_vars

\* a broadcast dispatch emptied the queues in the pending window, no event
\* came after it, and the timer's dispatch has handed the transport a message
\* of zero entries
C19_Witness ==
  /\ last.op = "fire"
  /\ Len(dispatches) >= 2
  /\ LET d == dispatches[Len(dispatches)]
         b == dispatches[Len(dispatches) - 1]
     IN /\ d.kind = "timer" /\ d.logs = <<>> /\ d.state = "sending"
        /\ b.kind = "broadcast" /\ b.at > d.timer /\ b.at = d.at
        /\ \E k \in 1..Len(b.frags) : b.frags[k].event = ErrEvent

====
